---- MODULE Spec2Model ----
(***************************************************************************)
(* Model of the bioreactor temperature regulation loop:                    *)
(*   - temperature_pid_controller (src/src/utils.py), the PID job;         *)
(*   - the periodic job scheduler that runs the jobs submitted by the run  *)
(*     script (src/src/bioreactor_data/20260209_173158/algae_12_12.py).    *)
(* Floating point values are modelled as exact rationals <<n, d>> in       *)
(* lowest terms with d > 0; NaN is <<0, 0>>; Python's None is <<>>.        *)
(***************************************************************************)
EXTENDS Integers, Sequences, FiniteSets, TLC

----------------------------------------------------------------------------
(* Float arithmetic, as exact rationals with NaN.                          *)

None == <<>>
NaN == <<0, 0>>

IsNaN(x) == x[2] = 0

Abs(i) == IF i < 0 THEN -i ELSE i

RECURSIVE GCD(_, _)
GCD(a, b) == IF b = 0 THEN a ELSE GCD(b, a % b)

Rat(n, d) ==
    IF d = 0 THEN NaN
    ELSE LET g == GCD(Abs(n), Abs(d))
             s == IF d < 0 THEN -1 ELSE 1
         IN  <<(s * n) \div g, (s * d) \div g>>

R(i) == <<i, 1>>

RAdd(x, y) == IF IsNaN(x) \/ IsNaN(y) THEN NaN
              ELSE Rat(x[1] * y[2] + y[1] * x[2], x[2] * y[2])

RNeg(x) == IF IsNaN(x) THEN NaN ELSE <<-x[1], x[2]>>

RSub(x, y) == RAdd(x, RNeg(y))

RMul(x, y) == IF IsNaN(x) \/ IsNaN(y) THEN NaN
              ELSE Rat(x[1] * y[1], x[2] * y[2])

\* x / y; a division by zero, which raises ZeroDivisionError in Python, yields
\* NaN here (the code divides only under the guard dt > 0)
RDiv(x, y) == IF IsNaN(x) \/ IsNaN(y) THEN NaN
              ELSE Rat(x[1] * y[2], x[2] * y[1])

\* comparisons with NaN are false, as in IEEE 754
RLt(x, y) == ~IsNaN(x) /\ ~IsNaN(y) /\ x[1] * y[2] < y[1] * x[2]

RGt(x, y) == RLt(y, x)

RLe(x, y) == ~IsNaN(x) /\ ~IsNaN(y) /\ x[1] * y[2] <= y[1] * x[2]

RAbs(x) == IF IsNaN(x) THEN NaN ELSE <<Abs(x[1]), x[2]>>

\* Python's min(a, b): b if b < a else a
RMin(a, b) == IF RLt(b, a) THEN b ELSE a

\* Python's max(a, b): b if b > a else a
RMax(a, b) == IF RGt(b, a) THEN b ELSE a

Zero == R(0)
One == R(1)

----------------------------------------------------------------------------
(* Bounds and input sets.                                                  *)

\* number of controller invocations explored
MaxCalls == 2
\* wall clock readings range over 0..MaxClock (seconds)
MaxClock == 2

\* temperatures passed as the current_temp argument
SuppliedTemps == {R(20), R(30), NaN}
\* temperatures returned by get_temperature
SensorTemps == {R(25), NaN}
\* explicit dt arguments
DtArgs == {R(0), R(1)}
\* explicit elapsed arguments
ElapsedArgs == {R(0), R(1), R(3)}

\* partial(temperature_pid_controller, setpoint=25.0, kp=12.0, ki=0.015, kd=0.0)
\* with the function's defaults max_duty=70.0, derivative_alpha=0.7
ScriptKwargs ==
    [setpoint |-> R(25), kp |-> R(12), ki |-> Rat(15, 1000), kd |-> R(0),
     max_duty |-> R(70), derivative_alpha |-> Rat(7, 10)]

\* keyword arguments bound when the job is configured
Kwargs == {
    ScriptKwargs,
    \* all gains zero
    [setpoint |-> R(25), kp |-> R(0), ki |-> R(0), kd |-> R(0),
     max_duty |-> R(70), derivative_alpha |-> Rat(7, 10)],
    \* all three terms active, low ceiling
    [setpoint |-> R(25), kp |-> R(12), ki |-> R(1), kd |-> R(2),
     max_duty |-> R(50), derivative_alpha |-> Rat(7, 10)],
    \* ceiling of zero
    [setpoint |-> R(25), kp |-> R(12), ki |-> Rat(15, 1000), kd |-> R(0),
     max_duty |-> R(0), derivative_alpha |-> Rat(7, 10)] }

----------------------------------------------------------------------------
(* temperature_pid_controller, statement by statement.                     *)

\* current_temp after "if current_temp is None: current_temp = get_temperature(...)"
ResolveTemp(current_temp, sensor) ==
    IF current_temp = None THEN sensor ELSE current_temp

\* error = setpoint - current_temp
Error(setpoint, current_temp) == RSub(setpoint, current_temp)

\* current_time = elapsed if elapsed is not None else time.time()
CurrentTime(elapsed, now) == IF elapsed # None THEN elapsed ELSE now

ResolveDtZeroDefault(dt, elapsed, now, last_time) ==
    IF dt = None
    THEN IF last_time # None
         THEN RSub(CurrentTime(elapsed, now), last_time)
         ELSE Zero
    ELSE dt

\* the dt used by the update
ResolveDt(dt, elapsed, now, last_time) ==
    IF dt = None
    THEN IF last_time # None
         THEN RSub(CurrentTime(elapsed, now), last_time)
         ELSE One
    ELSE dt

NextLastTimeComputedOnly(dt, elapsed, now, last_time) ==
    IF dt = None THEN CurrentTime(elapsed, now) ELSE last_time

\* _temp_last_time after the dt block
NextLastTime(dt, elapsed, now, last_time) ==
    IF dt = None
    THEN CurrentTime(elapsed, now)
    ELSE IF elapsed # None THEN elapsed ELSE last_time

ValidUnchecked(error, current_temp) == TRUE

\* if not np.isnan(error) and not np.isnan(current_temp)
Valid(error, current_temp) == ~IsNaN(error) /\ ~IsNaN(current_temp)

\* the ceiling of an anti-windup clamp the code does not have
WindupLimit == R(10)

NextIntegralClamped(integral, error, dt) ==
    RMax(RNeg(WindupLimit), RMin(WindupLimit, RAdd(integral, RMul(error, dt))))

\* bioreactor._temp_integral += error * dt
NextIntegral(integral, error, dt) == RAdd(integral, RMul(error, dt))

RawDerivativeAfterStore(error, last_error, dt) ==
    IF RGt(dt, Zero) THEN RDiv(RSub(error, error), dt) ELSE Zero

RawDerivativeUnguarded(error, last_error, dt) ==
    RDiv(RSub(error, last_error), dt)

\* raw_derivative = (error - last_error) / dt if dt > 0 else 0.0
RawDerivative(error, last_error, dt) ==
    IF RGt(dt, Zero) THEN RDiv(RSub(error, last_error), dt) ELSE Zero

DerivativeUnfiltered(alpha, last_derivative, raw_derivative) == raw_derivative

\* derivative = alpha * last_derivative + (1 - alpha) * raw_derivative
Derivative(alpha, last_derivative, raw_derivative) ==
    RAdd(RMul(alpha, last_derivative), RMul(RSub(One, alpha), raw_derivative))

OutputNoIntegral(kp, ki, kd, error, integral, derivative) ==
    RAdd(RMul(kp, error), RMul(kd, derivative))

\* output = kp * error + ki * integral + kd * derivative
Output(kp, ki, kd, error, integral, derivative) ==
    RAdd(RAdd(RMul(kp, error), RMul(ki, integral)), RMul(kd, derivative))

DutyUnclamped(max_duty, output) == RMax(Zero, RAbs(output))

\* duty = max(0, min(max_duty, abs(output)))
Duty(max_duty, output) == RMax(Zero, RMin(max_duty, RAbs(output)))

DirectionInverted(output) == IF RGt(output, Zero) THEN "cool" ELSE "heat"

\* direction = 'heat' if output > 0 else 'cool'
Direction(output) == IF RGt(output, Zero) THEN "heat" ELSE "cool"

SetPeltierPower(duty, forward) ==
    [op |-> "set_peltier_power", duty |-> duty, forward |-> forward]

StopPeltier == [op |-> "stop_peltier", duty |-> None, forward |-> "none"]

PeltierCallsUnchecked(peltier_ok, duty, direction) ==
    IF RGt(duty, Zero)
    THEN <<SetPeltierPower(duty, direction)>>
    ELSE <<StopPeltier>>

PeltierCallsStopFirst(peltier_ok, duty, direction) ==
    IF peltier_ok
    THEN IF RGt(duty, Zero)
         THEN <<StopPeltier, SetPeltierPower(duty, direction)>>
         ELSE <<StopPeltier>>
    ELSE <<>>

PeltierCallsInclusive(peltier_ok, duty, direction) ==
    IF peltier_ok
    THEN IF ~RLt(duty, Zero)
         THEN <<SetPeltierPower(duty, direction)>>
         ELSE <<StopPeltier>>
    ELSE <<>>

\* the calls made on the peltier collaborator by one valid invocation
PeltierCalls(peltier_ok, duty, direction) ==
    IF peltier_ok
    THEN IF RGt(duty, Zero)
         THEN <<SetPeltierPower(duty, direction)>>
         ELSE <<StopPeltier>>
    ELSE <<>>

ValidLogsSilent(peltier_ok) == IF peltier_ok THEN <<"info">> ELSE <<>>

\* the log records of one valid invocation
ValidLogs(peltier_ok) == IF peltier_ok THEN <<"info">> ELSE <<"warning">>

\* the log records of an invocation that saw NaN
NanLogs == <<"warning">>

SkippedStateFrozen(st, last_time) == st

\* the controller state after an invocation that saw NaN: the dt block has
\* run, the update has not
SkippedState(st, last_time) == [st EXCEPT !.last_time = last_time]

\* One invocation: st is the controller state on the bioreactor, kw the bound
\* keyword arguments, a the per-call arguments and the collaborators' answers.
PidController(st, kw, a) ==
    LET current_temp == ResolveTemp(a.current_temp, a.sensor)
        error == Error(kw.setpoint, current_temp)
        dt == ResolveDt(a.dt, a.elapsed, a.now, st.last_time)
        last_time == NextLastTime(a.dt, a.elapsed, a.now, st.last_time)
    IN  IF Valid(error, current_temp)
        THEN LET integral == NextIntegral(st.integral, error, dt)
                 raw == RawDerivative(error, st.last_error, dt)
                 derivative == Derivative(kw.derivative_alpha, st.last_derivative, raw)
                 output == Output(kw.kp, kw.ki, kw.kd, error, integral, derivative)
                 duty == Duty(kw.max_duty, output)
                 direction == Direction(output)
             IN  [st |-> [integral |-> integral, last_error |-> error,
                          last_derivative |-> derivative, last_time |-> last_time],
                  current_temp |-> current_temp, error |-> error, dt |-> dt,
                  valid |-> TRUE, raw_derivative |-> raw, output |-> output,
                  duty |-> duty, direction |-> direction,
                  peltier |-> PeltierCalls(a.peltier_ok, duty, direction),
                  logs |-> ValidLogs(a.peltier_ok)]
        ELSE [st |-> SkippedState(st, last_time),
              current_temp |-> current_temp, error |-> error, dt |-> dt,
              valid |-> FALSE, raw_derivative |-> None, output |-> None,
              duty |-> None, direction |-> "none",
              peltier |-> <<>>, logs |-> NanLogs]

----------------------------------------------------------------------------
(* components.py: the init functions of the GPIO components.  Each is      *)
(* called as init(bioreactor, config); its hardware calls (the imports,    *)
(* lgpio.gpiochip_open, gpio_claim_output, tx_pwm, driver.set_speed) may   *)
(* fail, which the model takes as an input of the call.                    *)

\* an assigned pin; a pin missing from the config reads as None
Pin(n) == <<n>>

\* the keys of COMPONENT_REGISTRY whose init functions use lgpio
Components == {"peltier_driver", "stirrer", "led"}

\* the hardware call that fails during one init call, if any: the imports;
\* gpiochip_open(4) alone (the fallback gpiochip_open(0) succeeds); both opens;
\* the claim of the DIR pin; the claim of the PWM pin; tx_pwm; set_speed
FaultsOf(c) ==
    {"none", "import", "open4", "open", "claim_pwm", "tx_pwm"}
    \cup (IF c = "peltier_driver" THEN {"claim_dir"} ELSE {})
    \cup (IF c = "stirrer" THEN {"set_speed"} ELSE {})

\* number of init calls followed
MaxInits == 3

\* the pin assignments of the recorded run
RunConfig ==
    [PELTIER_PWM_PIN |-> Pin(21), PELTIER_DIR_PIN |-> Pin(20),
     STIRRER_PWM_PIN |-> Pin(12), LED_PWM_PIN |-> Pin(25),
     STIRRER_DEFAULT_DUTY |-> 30]

\* every config in which each pin is assigned or missing
Configs ==
    [PELTIER_PWM_PIN : {None, Pin(21)}, PELTIER_DIR_PIN : {None, Pin(20)},
     STIRRER_PWM_PIN : {None, Pin(12)}, LED_PWM_PIN : {None, Pin(25)},
     STIRRER_DEFAULT_DUTY : {0, 30}]

PinsMissingPwmOnly(c, cfg) ==
    CASE c = "peltier_driver" -> cfg.PELTIER_PWM_PIN = None
      [] c = "stirrer" -> cfg.STIRRER_PWM_PIN = None
      [] c = "led" -> cfg.LED_PWM_PIN = None

\* "if pwm_pin is None or dir_pin is None" / "if pwm_pin is None"
PinsMissing(c, cfg) ==
    CASE c = "peltier_driver" ->
            cfg.PELTIER_PWM_PIN = None \/ cfg.PELTIER_DIR_PIN = None
      [] c = "stirrer" -> cfg.STIRRER_PWM_PIN = None
      [] c = "led" -> cfg.LED_PWM_PIN = None

\* the gpio_claim_output calls of the try block, in order, each with the
\* fault that makes it raise
ClaimSteps(c, cfg) ==
    CASE c = "peltier_driver" ->
            << [pin |-> cfg.PELTIER_DIR_PIN, fault |-> "claim_dir"],
               [pin |-> cfg.PELTIER_PWM_PIN, fault |-> "claim_pwm"] >>
      [] c = "stirrer" -> << [pin |-> cfg.STIRRER_PWM_PIN, fault |-> "claim_pwm"] >>
      [] c = "led" -> << [pin |-> cfg.LED_PWM_PIN, fault |-> "claim_pwm"] >>

\* index of the first claim that raises (the injected fault, or a pin that is
\* None), 0 when every claim succeeds
FirstFailure(steps, fault) ==
    LET bad == {i \in 1..Len(steps) : steps[i].pin = None \/ steps[i].fault = fault}
    IN  IF bad = {} THEN 0 ELSE CHOOSE i \in bad : \A k \in bad : i <= k

\* the pins claimed by the try block before it raises or completes
ClaimedPins(steps, fault) ==
    LET f == FirstFailure(steps, fault)
        last == IF f = 0 THEN Len(steps) ELSE f - 1
    IN  {steps[i].pin[1] : i \in 1..last}

\* {'initialized': False, 'error': ...}
Failed == [initialized |-> FALSE, error |-> TRUE, raised |-> FALSE]

\* {'initialized': True, 'driver': driver}
Initialized == [initialized |-> TRUE, error |-> FALSE, raised |-> FALSE]

\* an exception leaves the function: there is no result
Raised == [initialized |-> FALSE, error |-> FALSE, raised |-> TRUE]

MustOpenAlways(rx) == TRUE

\* gpio_chip = getattr(bioreactor, 'gpio_chip', None); if gpio_chip is None
MustOpen(rx) == rx.gpio_chip = None

\* init_peltier_driver, init_stirrer and init_led: rx is the bioreactor's
\* attributes, io the state of lgpio; the result says what the caller gets
InitComponent(c, cfg, rx, io, fault) ==
    LET mustOpen == MustOpen(rx)
        chip == IF mustOpen THEN <<io.opens + 1>> ELSE rx.gpio_chip
        rx1 == [rx EXCEPT !.gpio_chip = chip]
        io1 == IF mustOpen THEN [io EXCEPT !.opens = @ + 1] ELSE io
        steps == ClaimSteps(c, cfg)
        io2 == [io1 EXCEPT !.claimed = @ \cup ClaimedPins(steps, fault)]
        io3 == [io2 EXCEPT !.pwm = @ \cup {steps[Len(steps)].pin[1]}]
        rx2 == [rx1 EXCEPT !.drivers[c] = chip]
    IN  IF fault = "import"
        THEN [reactor |-> rx, gpio |-> io, result |-> Failed]
        ELSE IF PinsMissing(c, cfg)
        THEN [reactor |-> rx, gpio |-> io, result |-> Failed]
        ELSE IF mustOpen /\ fault = "open"
        THEN [reactor |-> rx, gpio |-> io, result |-> Raised]
        ELSE IF FirstFailure(steps, fault) # 0 \/ fault = "tx_pwm"
        THEN [reactor |-> rx1, gpio |-> io2, result |-> Failed]
        ELSE IF c = "stirrer" /\ cfg.STIRRER_DEFAULT_DUTY # 0 /\ fault = "set_speed"
        THEN [reactor |-> rx2, gpio |-> io3, result |-> Raised]
        ELSE [reactor |-> rx2, gpio |-> io3, result |-> Initialized]

----------------------------------------------------------------------------
(* senseair_k33_i2c.py: read_co2_ppm and read_co2_ppm_with_bus.  One        *)
(* attempt opens the bus (read_co2_ppm only), writes the command, reads the *)
(* reply; what the bus does is an input of each attempt.                    *)

Co2Functions == {"read_co2_ppm", "read_co2_ppm_with_bus"}

\* largest value of the retries argument followed
MaxRetries == 3

\* _REPLY_LEN
REPLY_LEN == 4

\* replies of the sensor: two full ones (500 and 1000 ppm) and a short one
Replies == { <<0, 0, 1, 244>>, <<0, 0, 3, 232>>, <<0, 0>> }

\* what one attempt meets: an OSError from SMBus(bus_num), from the write or
\* from the read, another exception from the bus, or a reply
AttemptOutcomes(f) ==
    {[kind |-> k, data |-> <<>>] :
        k \in {"oserror_write", "oserror_read", "other"}
              \cup (IF f = "read_co2_ppm" THEN {"oserror_open"} ELSE {})}
    \cup {[kind |-> "reply", data |-> d] : d \in Replies}

\* the exception raised inside the try block of one attempt, "none" if the
\* attempt reaches the return statement
Exc(o) ==
    CASE o.kind \in {"oserror_open", "oserror_write", "oserror_read"} -> "OSError"
      [] o.kind = "other" -> "ValueError"
      [] o.kind = "reply" /\ Len(o.data) < REPLY_LEN -> "RuntimeError"
      [] OTHER -> "none"

\* return (data[2] << 8) | data[3], on bytes
Ppm(data) == data[3] * 256 + data[4]

CaughtAny(exc) == exc # "none"

\* except OSError
Caught(exc) == exc = "OSError"

\* for _ in range(retries)
MoreAttempts(made, retries) == made < retries

\* the call after one more attempt that met o
Attempted(c, o) ==
    LET tries == Append(c.tries, o)
    IN  IF Exc(o) = "none"
        THEN [c EXCEPT !.tries = tries, !.pc = "returned", !.value = Ppm(o.data)]
        ELSE IF Caught(Exc(o))
        THEN [c EXCEPT !.tries = tries, !.last_error = o.kind]
        ELSE [c EXCEPT !.tries = tries, !.pc = "raised", !.exc = Exc(o),
                       !.message = IF o.kind = "reply" THEN "Short read" ELSE "other"]

\* raise RuntimeError(f"I2C read failed after {retries} retries: {last_error}")
Exhausted(c) ==
    [c EXCEPT !.pc = "raised", !.exc = "RuntimeError", !.message = "I2C read failed"]

----------------------------------------------------------------------------
(* utils.py: the plot series of measure_and_plot_sensors.  A series is     *)
(* followed by its length; a sample is a value or NaN.                     *)

\* deque(maxlen=1000)
PlotMaxLen == 1000

\* largest number of calls in which an optical-density read raises
MaxRaises == 2

\* which of the channels Trx and Sct come with a value: both, one of them,
\* neither, or (measure_od only) no result at all
Readings == {"both", "Trx", "Sct", "neither", "none"}

HasReading(readings, channel) == readings = "both" \/ readings = channel

Sample(has) == IF has THEN "value" ELSE "nan"

\* what a call meets: whether led and optical_density are initialized, the
\* temperature read, the channel readings, and which sensor read raises
\* (fault "temperature": get_temperature raises; fault "od": measure_od or
\* read_voltage raises, which takes an initialized optical_density; what is
\* not read in a call is given one value)
Measurements(canRaise) ==
    {m \in [led : BOOLEAN, od : BOOLEAN, temperature : {"value", "nan"},
            readings : Readings, fault : {"none", "temperature", "od"}] :
        /\ ~m.od => m.readings = "none" /\ m.fault # "od"
        /\ m.od /\ ~m.led => m.readings # "none"
        /\ m.fault = "od" => canRaise
        /\ m.fault # "none" => m.readings = (IF m.od THEN "both" ELSE "none")
        /\ m.fault = "temperature" => m.temperature = "value"}

\* deque.append on a series of n samples, once per sample: at maxlen the
\* oldest sample is dropped
Extended(n, samples) ==
    IF n + Len(samples) > PlotMaxLen THEN PlotMaxLen ELSE n + Len(samples)

\* the samples appended to temperature
TemperatureSamples(m) == << Sample(m.temperature # "nan") >>

OdSamplesSkipMissing(m) ==
    LET seen(ch) == IF HasReading(m.readings, ch) THEN << "value" >> ELSE << >>
    IN  [od_trx |-> seen("Trx"), od_sct |-> seen("Sct")]

\* the samples appended to od_trx and od_sct, branch by branch
OdSamples(m) ==
    IF m.led /\ m.od
    THEN IF m.readings # "none"
         THEN [od_trx |-> << Sample(HasReading(m.readings, "Trx")) >>,
               od_sct |-> << Sample(HasReading(m.readings, "Sct")) >>]
         ELSE [od_trx |-> << "nan" >>, od_sct |-> << "nan" >>]
    ELSE IF m.od
         THEN [od_trx |-> << Sample(HasReading(m.readings, "Trx")) >>,
               od_sct |-> << Sample(HasReading(m.readings, "Sct")) >>]
         ELSE [od_trx |-> << "nan" >>, od_sct |-> << "nan" >>]

\* ax.plot(time, series) raises ValueError when the two differ in length
PlotRaises(p) ==
    /\ p.time > 1
    /\ \/ p.temperature > 0 /\ p.temperature # p.time
       \/ p.od_trx > 0 /\ p.od_trx # p.time
       \/ p.od_sct > 0 /\ p.od_sct # p.time

\* the series after one call that meets m, and how the call ends
Measured(p, m) ==
    LET stored == [p EXCEPT !.temperature = Extended(@, TemperatureSamples(m))]
        all    == [stored EXCEPT !.od_trx = Extended(@, OdSamples(m).od_trx),
                                 !.od_sct = Extended(@, OdSamples(m).od_sct),
                                 !.time   = Extended(@, << "value" >>)]
    IN  CASE m.fault = "temperature" -> [plot |-> p, outcome |-> "raised"]
          [] m.fault = "od" -> [plot |-> stored, outcome |-> "raised"]
          [] OTHER -> [plot |-> all,
                       outcome |-> IF PlotRaises(all) THEN "raised" ELSE "returned"]

----------------------------------------------------------------------------
(* The job scheduler: run(jobs) starts one execution unit per job; finish() *)
(* and the teardown on leaving the Bioreactor context both perform the     *)
(* stop operation.  Durations are abstracted: a period sleep ends and a    *)
(* finite run_for elapses at some moment the model does not fix.            *)

\* the execution units of the submitted jobs
Jobs == {1, 2}

\* (frequency, duration) of a job: a number of seconds, or True
JobConfigs == [period : {"finite", "continuous"}, run_for : {"finite", "indefinite"}]

\* what a job's action does when invoked
Behaviours == {"returns", "raises", "hangs"}

\* invocation counts are kept up to this value, then stay there
MaxInvoked == 2

CanStartWhileInvoking(position) == position \in {"loop", "invoking"}

\* a unit starts an invocation only at the top of its loop: it is one thread of
\* control, which calls the action and waits for it to end
CanStart(position) == position = "loop"

CanRunOneAtATime(j, jpcs) == \A i \in Jobs : jpcs[i] # "invoking"

\* whether unit j may start an invocation: each job has its own unit, so no
\* job waits on another
CanRun(j, jpcs) == TRUE

\* where a unit goes after an invocation ended
AfterInvocation(cfg) == IF cfg.period = "continuous" THEN "loop" ELSE "sleeping"

OnRaiseKillsUnit(cfg) == [jpc |-> "exited", propagated |-> TRUE]

\* an exception of the action is caught at the scheduler boundary and logged
OnRaise(cfg) == [jpc |-> AfterInvocation(cfg), propagated |-> FALSE]

\* a unit leaves its loop when the stop signal is raised or run_for has elapsed
ShouldExit(stopped, hasExpired) == stopped \/ hasExpired

CanExitMidInvocation(position) == position \in {"loop", "invoking"}

\* whether a unit can be ended in the given position
CanExit(position) == position = "loop"

JoinedNoWait(jpcs) == TRUE

\* the stop operation has joined every unit
Joined(jpcs) == \A j \in DOMAIN jpcs : jpcs[j] = "exited"

LockFreeAlways(holder) == TRUE

\* a resource lock can be taken: nobody holds it (0 is no holder)
LockFree(holder) == holder = 0

\* the lock after holder j releases it
Released(holder, j) == IF holder = j THEN 0 ELSE holder

\* no command
NoCommand == [op |-> "none", duty |-> None, forward |-> "none"]

\* the commands an invocation of the controller sends: heat, cool and Stop
PidCommands ==
    {PeltierCalls(TRUE, Duty(ScriptKwargs.max_duty, o), Direction(o))[1] :
        o \in {R(60), R(-40), Zero}}

\* the peltier driver after one half of command c is written to the pins:
\* first the duty, then the direction, which completes the command; Stop is
\* duty 0 and leaves the direction pin
Written(p, c, half) ==
    IF half = "duty"
    THEN [p EXCEPT !.duty = IF c.op = "stop_peltier" THEN Zero ELSE c.duty]
    ELSE [p EXCEPT !.dir = IF c.op = "stop_peltier" THEN @ ELSE c.forward,
                   !.done = c]

SleepIgnoresStop(stopped) == FALSE

\* the sleep between two invocations is a wait on the stop signal: it ends at
\* once when the signal is raised
SleepObservesStop(stopped) == stopped

ShouldReleaseEveryTime(isReleased) == TRUE

\* the stop operation releases the hardware only if it has not done so yet
ShouldRelease(isReleased) == ~isReleased

----------------------------------------------------------------------------
(* State.                                                                  *)

VARIABLES
    pid,        \* _temp_integral, _temp_last_error, _temp_last_derivative, _temp_last_time
    kwargs,     \* keyword arguments bound to the PID job
    clock,      \* latest wall clock reading
    calls,      \* number of controller invocations so far
    inv,        \* the latest invocation: arguments, state before, results
    hist,       \* what the invocations so far amount to (history, not program state)
    job,        \* per job: its configuration and what its action does
    jpc,        \* per job: position of its execution unit
    inflight,   \* per job: an invocation of its action has started and not ended
    outcome,    \* per job: how its latest ended invocation ended
    invoked,    \* per job: number of invocations started (up to MaxInvoked)
    expired,    \* per job: run_for has elapsed since the job started
    overrun,    \* per job: stop or the end of run_for came during an invocation
    stop,       \* the global stop signal
    mpc,        \* position of the run script
    released,   \* the hardware resources have been released
    releases,   \* number of times the hardware resources were released
    returned,   \* number of stop operations that have returned
    failed,     \* an exception reached the top level, or a stop operation raised
    config,     \* the Config object: pin assignments and the stirrer default duty
    reactor,    \* the attributes the init functions set on the bioreactor
    gpio,       \* lgpio: successful chip opens, claimed pins, pins with PWM started
    init,       \* the latest call of an init function: arguments, state before, result
    inits,      \* number of init calls made (up to MaxInits)
    peltier,    \* the peltier driver: lock holder, duty and direction on the pins,
                \* the command completed last
    sensor,     \* the temperature sensor: lock holder, whose conversion is on the
                \* bus, whether a reader ever got the conversion of another
    ipc,        \* per job: position inside an invocation that uses the hardware
    pending,    \* per job: the peltier command it is writing
    co2,        \* one call of read_co2_ppm / read_co2_ppm_with_bus: its arguments,
                \* position, the attempts made and how it ended
    plot,       \* _plot_data: the number of samples in each of the four series
    meas,       \* the latest call of measure_and_plot_sensors: what it found,
                \* the series before it, how it ended
    raises      \* number of calls of measure_and_plot_sensors that raised

pidVars == <<pid, kwargs, clock, calls, inv, hist>>
schedVars == <<job, jpc, inflight, outcome, invoked, expired, overrun, stop, mpc,
               released, releases, returned, failed>>
compVars == <<config, reactor, gpio, init, inits>>
vars == <<pid, kwargs, clock, calls, inv, hist, job, jpc, inflight, outcome, invoked,
          expired, overrun, stop, mpc, released, releases, returned, failed,
          config, reactor, gpio, init, inits, peltier, sensor, ipc, pending,
          co2, plot, meas, raises>>
hwVars == <<peltier, sensor, ipc, pending>>
ioVars == <<co2, plot, meas, raises>>

\* the state set up by "Initialize PID state if not present"
FreshPid == [integral |-> Zero, last_error |-> Zero,
             last_derivative |-> Zero, last_time |-> None]

NoArgs == [current_temp |-> None, dt |-> None, elapsed |-> None,
           sensor |-> None, now |-> None, peltier_ok |-> FALSE]

NoInvocation == [args |-> NoArgs, before |-> FreshPid,
                 res |-> [st |-> FreshPid, current_temp |-> None, error |-> None,
                          dt |-> None, valid |-> FALSE, raw_derivative |-> None,
                          output |-> None, duty |-> None, direction |-> "none",
                          peltier |-> <<>>, logs |-> <<>>]]

\* the jobs of the run script: (function, 20 | 5 | 1, True)
ScriptJob == [period |-> "finite", run_for |-> "indefinite", action |-> "returns"]

\* no invocation yet: no timestamp taken, nothing accumulated
NoHistory == [computed |-> None, stamped |-> None, sum |-> Zero,
              skipped |-> None, skipped_before |-> None]

PidInit ==
    /\ pid = FreshPid
    /\ clock = 0
    /\ calls = 0
    /\ inv = NoInvocation
    /\ hist = NoHistory

SchedStart ==
    /\ jpc = [j \in Jobs |-> "idle"]
    /\ inflight = [j \in Jobs |-> FALSE]
    /\ outcome = [j \in Jobs |-> "none"]
    /\ invoked = [j \in Jobs |-> 0]
    /\ expired = [j \in Jobs |-> FALSE]
    /\ overrun = [j \in Jobs |-> FALSE]
    /\ stop = FALSE
    /\ mpc = "init"
    /\ released = FALSE
    /\ releases = 0
    /\ returned = 0
    /\ failed = FALSE

\* a bioreactor on which no init function has run
FreshReactor == [gpio_chip |-> None, drivers |-> [c \in Components |-> None]]

\* lgpio before any call
FreshGpio == [opens |-> 0, claimed |-> {}, pwm |-> {}]

NoInit == [component |-> "none", fault |-> "none", reactor |-> FreshReactor,
           gpio |-> FreshGpio, result |-> Failed]

\* the hardware before any job has used it
HwStart ==
    /\ peltier = [lock |-> 0, duty |-> Zero, dir |-> "none", done |-> NoCommand]
    /\ sensor = [lock |-> 0, bus |-> 0, torn |-> FALSE]
    /\ ipc = [j \in Jobs |-> "none"]
    /\ pending = [j \in Jobs |-> NoCommand]

\* no CO2 read under way, empty plot series, no call of
\* measure_and_plot_sensors yet
NoCo2 == [func |-> "none", retries |-> 0, pc |-> "idle", tries |-> <<>>,
          last_error |-> "none", value |-> 0, exc |-> "none", message |-> "none"]

EmptyPlot == [time |-> 0, temperature |-> 0, od_trx |-> 0, od_sct |-> 0]

NoMeasurement == [led |-> FALSE, od |-> FALSE, temperature |-> "nan",
                  readings |-> "none", fault |-> "none",
                  before |-> EmptyPlot, outcome |-> "none"]

IoStart ==
    /\ co2 = NoCo2
    /\ plot = EmptyPlot
    /\ meas = NoMeasurement
    /\ raises = 0

CompStart ==
    /\ reactor = FreshReactor
    /\ gpio = FreshGpio
    /\ init = NoInit
    /\ inits = 0

\* the controller alone, called with every combination of arguments
Init ==
    /\ PidInit
    /\ kwargs \in Kwargs
    /\ job = [j \in Jobs |-> ScriptJob]
    /\ SchedStart
    /\ config = RunConfig
    /\ CompStart
    /\ HwStart
    /\ IoStart

\* the ways current_temp is resolved: supplied, or read from the sensor
TempChoices ==
    {[current_temp |-> c, sensor |-> None] : c \in SuppliedTemps}
    \cup {[current_temp |-> None, sensor |-> s] : s \in SensorTemps}

\* the ways the timestamp is resolved; time.time() is read only when neither
\* dt nor elapsed is given; an explicit dt together with elapsed is tried with
\* dt = 1
TimeChoices ==
    {[dt |-> d, elapsed |-> e, now |-> None] :
        d \in {One, None}, e \in ElapsedArgs}
    \cup {[dt |-> d, elapsed |-> None, now |-> None] : d \in DtArgs}
    \cup {[dt |-> None, elapsed |-> None, now |-> R(t)] : t \in clock..MaxClock}

\* The history after one more invocation with arguments a and results r:
\* computed is the timestamp of the latest invocation that computed its dt from
\* timestamps, stamped that of the latest invocation that was given no dt or was
\* given elapsed, sum the total of error * dt over the non-NaN invocations,
\* skipped the timestamp of this invocation if it saw NaN and was given no dt
\* (None otherwise), skipped_before what skipped was before this invocation.
Record(h, a, r) ==
    LET t == IF a.elapsed # None THEN a.elapsed ELSE a.now
    IN  [computed |-> IF a.dt = None THEN t ELSE h.computed,
         stamped |-> IF a.dt = None \/ a.elapsed # None THEN t ELSE h.stamped,
         sum |-> IF r.valid THEN RAdd(h.sum, RMul(r.error, r.dt)) ELSE h.sum,
         skipped |-> IF ~r.valid /\ a.dt = None THEN t ELSE None,
         skipped_before |-> h.skipped]

\* One call temperature_pid_controller(bioreactor, **kwargs, current_temp, dt, elapsed)
Invoke ==
    /\ calls < MaxCalls
    /\ \E tc \in TempChoices, tm \in TimeChoices, peltier_ok \in BOOLEAN :
         LET a == [current_temp |-> tc.current_temp, dt |-> tm.dt,
                   elapsed |-> tm.elapsed, sensor |-> tc.sensor,
                   now |-> tm.now, peltier_ok |-> peltier_ok]
             r == PidController(pid, kwargs, a)
         IN  /\ pid' = r.st
             /\ clock' = IF tm.now # None THEN tm.now[1] ELSE clock
             /\ inv' = [args |-> a, before |-> pid, res |-> r]
             /\ hist' = Record(hist, a, r)
    /\ calls' = calls + 1
    /\ UNCHANGED kwargs
    /\ UNCHANGED <<schedVars, compVars, hwVars, ioVars>>

Next == Invoke

Spec == Init /\ [][Next]_vars

----------------------------------------------------------------------------
(* The scheduler's operations.                                             *)

\* the scheduler with every job set; the controller is left alone
SchedInit ==
    /\ PidInit
    /\ kwargs = ScriptKwargs
    /\ job \in [Jobs -> {[period |-> c.period, run_for |-> c.run_for, action |-> b] :
                            c \in JobConfigs, b \in Behaviours}]
    /\ SchedStart
    /\ config = RunConfig
    /\ CompStart
    /\ HwStart
    /\ IoStart

\* reactor.run(jobs): every job's unit is started
Run ==
    /\ mpc = "init"
    /\ mpc' = "running"
    /\ jpc' = [j \in Jobs |-> "loop"]
    /\ UNCHANGED <<overrun, job, inflight, outcome, invoked, expired, stop,
                   released, releases, returned, failed>>
    /\ UNCHANGED <<pidVars, compVars, hwVars, ioVars>>

\* top of a unit's loop, stop raised or run_for elapsed: the unit exits
Exit(j) ==
    /\ CanExit(jpc[j])
    /\ ShouldExit(stop, expired[j])
    /\ jpc' = [jpc EXCEPT ![j] = "exited"]
    /\ UNCHANGED <<overrun, job, inflight, outcome, invoked, expired, stop, mpc,
                   released, releases, returned, failed>>
    /\ UNCHANGED <<pidVars, compVars, hwVars, ioVars>>

\* top of a unit's loop otherwise: the action is invoked
StartInvocation(j) ==
    /\ CanStart(jpc[j])
    /\ ~ShouldExit(stop, expired[j])
    /\ CanRun(j, jpc)
    /\ jpc' = [jpc EXCEPT ![j] = "invoking"]
    /\ inflight' = [inflight EXCEPT ![j] = TRUE]
    /\ invoked' = [invoked EXCEPT ![j] = IF @ < MaxInvoked THEN @ + 1 ELSE @]
    /\ UNCHANGED <<overrun, job, outcome, expired, stop, mpc,
                   released, releases, returned, failed>>
    /\ UNCHANGED <<pidVars, compVars, hwVars, ioVars>>

\* the action returns
ActionReturns(j) ==
    /\ jpc[j] = "invoking"
    /\ job[j].action = "returns"
    /\ jpc' = [jpc EXCEPT ![j] = AfterInvocation(job[j])]
    /\ inflight' = [inflight EXCEPT ![j] = FALSE]
    /\ outcome' = [outcome EXCEPT ![j] = "returned"]
    /\ UNCHANGED <<overrun, job, invoked, expired, stop, mpc,
                   released, releases, returned, failed>>
    /\ UNCHANGED <<pidVars, compVars, hwVars, ioVars>>

\* the action raises
ActionRaises(j) ==
    /\ jpc[j] = "invoking"
    /\ job[j].action = "raises"
    /\ jpc' = [jpc EXCEPT ![j] = OnRaise(job[j]).jpc]
    /\ failed' = (failed \/ OnRaise(job[j]).propagated)
    /\ inflight' = [inflight EXCEPT ![j] = FALSE]
    /\ outcome' = [outcome EXCEPT ![j] = "raised"]
    /\ UNCHANGED <<overrun, job, invoked, expired, stop, mpc,
                   released, releases, returned>>
    /\ UNCHANGED <<pidVars, compVars, hwVars, ioVars>>

\* the period sleep of a unit ends
Wake(j) ==
    /\ jpc[j] = "sleeping"
    /\ jpc' = [jpc EXCEPT ![j] = "loop"]
    /\ UNCHANGED <<overrun, job, inflight, outcome, invoked, expired, stop, mpc,
                   released, releases, returned, failed>>
    /\ UNCHANGED <<pidVars, compVars, hwVars, ioVars>>

\* the period sleep of a unit is cut short by the stop signal
StopWake(j) ==
    /\ jpc[j] = "sleeping"
    /\ SleepObservesStop(stop)
    /\ jpc' = [jpc EXCEPT ![j] = "loop"]
    /\ UNCHANGED <<overrun, job, inflight, outcome, invoked, expired, stop, mpc,
                   released, releases, returned, failed>>
    /\ UNCHANGED <<pidVars, compVars, hwVars, ioVars>>

\* a finite run_for elapses
Elapse(j) ==
    /\ job[j].run_for = "finite"
    /\ jpc[j] \notin {"idle", "exited"}
    /\ ~expired[j]
    /\ expired' = [expired EXCEPT ![j] = TRUE]
    /\ overrun' = [overrun EXCEPT ![j] = @ \/ inflight[j]]
    /\ UNCHANGED <<job, jpc, inflight, outcome, invoked, stop, mpc,
                   released, releases, returned, failed>>
    /\ UNCHANGED <<pidVars, compVars, hwVars, ioVars>>

\* Ctrl+C in the run script's wait loop: reactor.finish() is called
KeyboardInterrupt ==
    /\ mpc = "running"
    /\ mpc' = "finish"
    /\ UNCHANGED <<overrun, job, jpc, inflight, outcome, invoked, expired, stop,
                   released, releases, returned, failed>>
    /\ UNCHANGED <<pidVars, compVars, hwVars, ioVars>>

\* the stop operation, first half: the stop signal is raised
StopRequest ==
    /\ mpc \in {"finish", "exit"}
    /\ stop' = TRUE
    /\ mpc' = IF mpc = "finish" THEN "finish_join" ELSE "exit_join"
    /\ overrun' = [j \in Jobs |-> overrun[j] \/ inflight[j]]
    /\ UNCHANGED <<job, jpc, inflight, outcome, invoked, expired,
                   released, releases, returned, failed>>
    /\ UNCHANGED <<pidVars, compVars, hwVars, ioVars>>

\* the stop operation, second half: all units have exited, the final Stop is
\* sent to the peltier, the hardware is released, the operation returns
\* (finish() returns into the end of the with block, whose teardown stops again)
StopReturn ==
    /\ mpc \in {"finish_join", "exit_join"}
    /\ Joined(jpc)
    /\ LockFree(peltier.lock)
    /\ peltier' = Written(Written(peltier, StopPeltier, "duty"), StopPeltier, "direction")
    /\ releases' = IF ShouldRelease(released) THEN releases + 1 ELSE releases
    /\ failed' = (failed \/ (ShouldRelease(released) /\ released))
    /\ released' = TRUE
    /\ returned' = returned + 1
    /\ mpc' = IF mpc = "finish_join" THEN "exit" ELSE "done"
    /\ UNCHANGED <<overrun, job, jpc, inflight, outcome, invoked, expired, stop>>
    /\ UNCHANGED <<pidVars, compVars, sensor, ipc, pending, ioVars>>

SchedNext ==
    \/ Run
    \/ KeyboardInterrupt
    \/ StopRequest
    \/ StopReturn
    \/ \E j \in Jobs : Exit(j)
    \/ \E j \in Jobs : StartInvocation(j)
    \/ \E j \in Jobs : ActionReturns(j)
    \/ \E j \in Jobs : ActionRaises(j)
    \/ \E j \in Jobs : Wake(j)
    \/ \E j \in Jobs : StopWake(j)
    \/ \E j \in Jobs : Elapse(j)

SchedSpec == SchedInit /\ [][SchedNext]_vars

\* every unit is a thread of its own and the run script's thread runs too:
\* each keeps taking its steps; Ctrl+C and the elapsing of run_for are not
\* forced
SchedFairness ==
    /\ WF_vars(Run)
    /\ WF_vars(StopRequest)
    /\ WF_vars(StopReturn)
    /\ \A j \in Jobs :
         WF_vars(Exit(j) \/ StartInvocation(j) \/ ActionReturns(j)
                 \/ ActionRaises(j) \/ Wake(j))

SchedFairSpec == SchedSpec /\ SchedFairness

\* as SchedFairness, but a period may be arbitrarily long: the end of a period
\* sleep is not forced, only the wake-up by the stop signal is
ShutdownFairness ==
    /\ WF_vars(Run)
    /\ WF_vars(StopRequest)
    /\ WF_vars(StopReturn)
    /\ \A j \in Jobs :
         WF_vars(Exit(j) \/ StartInvocation(j) \/ ActionReturns(j)
                 \/ ActionRaises(j) \/ StopWake(j))

SchedShutdownSpec == SchedSpec /\ ShutdownFairness

----------------------------------------------------------------------------
(* Jobs that use the shared hardware: the PID job reads the temperature and *)
(* commands the peltier, the sensor job reads the temperature.  A read and  *)
(* a command each take two steps on the device, under the device's lock.    *)

\* the PID job of the run script: (partial(temperature_pid_controller, ...), 5, True)
ControlJob == [period |-> "finite", run_for |-> "indefinite", action |-> "controls"]

\* a sensor job, submitted as the run script submits its own:
\* (partial(measure_and_record_sensors, led_power=15.0), 20, True)
MeasureJob == [period |-> "finite", run_for |-> "indefinite", action |-> "measures"]

HwInit ==
    /\ PidInit
    /\ kwargs = ScriptKwargs
    /\ job \in [Jobs -> {ControlJob, MeasureJob}]
    /\ \E j \in Jobs : job[j] = ControlJob
    /\ SchedStart
    /\ config = RunConfig
    /\ CompStart
    /\ HwStart
    /\ IoStart

\* get_temperature, first half: the lock is taken and the conversion started
ReadBegin(j) ==
    /\ jpc[j] = "invoking"
    /\ job[j].action \in {"controls", "measures"}
    /\ ipc[j] = "none"
    /\ LockFree(sensor.lock)
    /\ sensor' = [sensor EXCEPT !.lock = j, !.bus = j]
    /\ ipc' = [ipc EXCEPT ![j] = "reading"]
    /\ UNCHANGED <<peltier, pending>>
    /\ UNCHANGED <<pidVars, compVars, schedVars, ioVars>>

\* get_temperature, second half: the value on the bus is fetched and the lock
\* released; measure_and_plot_sensors then returns
ReadEnd(j) ==
    /\ jpc[j] = "invoking"
    /\ ipc[j] = "reading"
    /\ sensor' = [sensor EXCEPT !.lock = Released(@, j),
                                !.torn = @ \/ sensor.bus # j]
    /\ IF job[j].action = "measures"
       THEN /\ ipc' = [ipc EXCEPT ![j] = "none"]
            /\ jpc' = [jpc EXCEPT ![j] = AfterInvocation(job[j])]
            /\ inflight' = [inflight EXCEPT ![j] = FALSE]
            /\ outcome' = [outcome EXCEPT ![j] = "returned"]
       ELSE /\ ipc' = [ipc EXCEPT ![j] = "read"]
            /\ UNCHANGED <<jpc, inflight, outcome>>
    /\ UNCHANGED <<peltier, pending>>
    /\ UNCHANGED <<overrun, job, invoked, expired, stop, mpc,
                   released, releases, returned, failed>>
    /\ UNCHANGED <<pidVars, compVars, ioVars>>

\* set_peltier_power / stop_peltier, first half: the lock is taken and the
\* duty written
WriteBegin(j) ==
    /\ jpc[j] = "invoking"
    /\ ipc[j] = "read"
    /\ LockFree(peltier.lock)
    /\ \E c \in PidCommands :
         /\ pending' = [pending EXCEPT ![j] = c]
         /\ peltier' = [Written(peltier, c, "duty") EXCEPT !.lock = j]
    /\ ipc' = [ipc EXCEPT ![j] = "writing"]
    /\ UNCHANGED sensor
    /\ UNCHANGED <<pidVars, compVars, schedVars, ioVars>>

\* set_peltier_power / stop_peltier, second half: the direction is written and
\* the lock released; temperature_pid_controller then returns
WriteEnd(j) ==
    /\ jpc[j] = "invoking"
    /\ ipc[j] = "writing"
    /\ peltier' = [Written(peltier, pending[j], "direction")
                      EXCEPT !.lock = Released(@, j)]
    /\ pending' = [pending EXCEPT ![j] = NoCommand]
    /\ ipc' = [ipc EXCEPT ![j] = "none"]
    /\ jpc' = [jpc EXCEPT ![j] = AfterInvocation(job[j])]
    /\ inflight' = [inflight EXCEPT ![j] = FALSE]
    /\ outcome' = [outcome EXCEPT ![j] = "returned"]
    /\ UNCHANGED sensor
    /\ UNCHANGED <<overrun, job, invoked, expired, stop, mpc,
                   released, releases, returned, failed>>
    /\ UNCHANGED <<pidVars, compVars, ioVars>>

HwNext ==
    \/ Run
    \/ KeyboardInterrupt
    \/ StopRequest
    \/ StopReturn
    \/ \E j \in Jobs : Exit(j)
    \/ \E j \in Jobs : StartInvocation(j)
    \/ \E j \in Jobs : ReadBegin(j)
    \/ \E j \in Jobs : ReadEnd(j)
    \/ \E j \in Jobs : WriteBegin(j)
    \/ \E j \in Jobs : WriteEnd(j)
    \/ \E j \in Jobs : Wake(j)
    \/ \E j \in Jobs : StopWake(j)

HwSpec == HwInit /\ [][HwNext]_vars

----------------------------------------------------------------------------
(* Component initialization: the init functions called in any order, with  *)
(* any config and any failing hardware call.                               *)

CompInit ==
    /\ PidInit
    /\ kwargs = ScriptKwargs
    /\ job = [j \in Jobs |-> ScriptJob]
    /\ SchedStart
    /\ config \in Configs
    /\ CompStart
    /\ HwStart
    /\ IoStart

\* one call init_peltier_driver / init_stirrer / init_led (bioreactor, config)
InitCall ==
    /\ inits < MaxInits
    /\ \E c \in Components :
         \E fault \in FaultsOf(c) :
            LET r == InitComponent(c, config, reactor, gpio, fault)
            IN  /\ reactor' = r.reactor
                /\ gpio' = r.gpio
                /\ init' = [component |-> c, fault |-> fault, reactor |-> reactor,
                            gpio |-> gpio, result |-> r.result]
    /\ inits' = inits + 1
    /\ UNCHANGED config
    /\ UNCHANGED <<pidVars, schedVars, hwVars, ioVars>>

CompNext == InitCall

CompSpec == CompInit /\ [][CompNext]_vars

----------------------------------------------------------------------------
(* One call of a CO2 read function, with every retries argument up to      *)
(* MaxRetries and whatever the bus does at each attempt.                   *)

Co2Init ==
    /\ PidInit
    /\ kwargs = ScriptKwargs
    /\ job = [j \in Jobs |-> ScriptJob]
    /\ SchedStart
    /\ config = RunConfig
    /\ CompStart
    /\ HwStart
    /\ \E f \in Co2Functions, n \in 0..MaxRetries :
          co2 = [NoCo2 EXCEPT !.func = f, !.retries = n, !.pc = "loop"]
    /\ plot = EmptyPlot
    /\ meas = NoMeasurement
    /\ raises = 0

\* one pass through the body of the for loop
Co2Attempt ==
    /\ co2.pc = "loop"
    /\ MoreAttempts(Len(co2.tries), co2.retries)
    /\ \E o \in AttemptOutcomes(co2.func) : co2' = Attempted(co2, o)
    /\ UNCHANGED <<plot, meas, raises>>
    /\ UNCHANGED <<pidVars, schedVars, compVars, hwVars>>

\* the for loop is exhausted
Co2Exhausted ==
    /\ co2.pc = "loop"
    /\ ~MoreAttempts(Len(co2.tries), co2.retries)
    /\ co2' = Exhausted(co2)
    /\ UNCHANGED <<plot, meas, raises>>
    /\ UNCHANGED <<pidVars, schedVars, compVars, hwVars>>

Co2Next == Co2Attempt \/ Co2Exhausted

Co2Spec == Co2Init /\ [][Co2Next]_vars

----------------------------------------------------------------------------
(* Repeated calls of measure_and_plot_sensors, with every availability of  *)
(* the LED and of the optical-density sensor and every reading.            *)

PlotInit ==
    /\ PidInit
    /\ kwargs = ScriptKwargs
    /\ job = [j \in Jobs |-> ScriptJob]
    /\ SchedStart
    /\ config = RunConfig
    /\ CompStart
    /\ HwStart
    /\ IoStart

MeasureAndPlot ==
    /\ \E m \in Measurements(raises < MaxRaises) :
          LET r == Measured(plot, m)
          IN  /\ plot' = r.plot
              /\ meas' = [led |-> m.led, od |-> m.od, temperature |-> m.temperature,
                          readings |-> m.readings, fault |-> m.fault,
                          before |-> plot, outcome |-> r.outcome]
              /\ raises' = IF m.fault = "od" THEN raises + 1 ELSE raises
    /\ UNCHANGED co2
    /\ UNCHANGED <<pidVars, schedVars, compVars, hwVars>>

PlotNext == MeasureAndPlot

PlotSpec == PlotInit /\ [][PlotNext]_vars

----------------------------------------------------------------------------
(* Properties of temperature_pid_controller, checked under Spec.  They     *)
(* read inv, the record of the latest invocation.                          *)

Called == calls > 0

\* the timestamp of the latest invocation when the code resolved one
Timestamp == IF inv.args.elapsed # None THEN inv.args.elapsed ELSE inv.args.now

\* the PID terms kept on the bioreactor are those from before the call
PidTermsUnchanged ==
    /\ pid.integral = inv.before.integral
    /\ pid.last_error = inv.before.last_error
    /\ pid.last_derivative = inv.before.last_derivative

\* C1 (NaN safety): an invocation whose resolved current_temp is NaN, whether
\* supplied or read from the sensor, leaves integral, last_error and
\* last_derivative as they were and calls neither set_peltier_power nor
\* stop_peltier.
NaNSafety ==
    (Called /\ IsNaN(inv.res.current_temp)) =>
        (PidTermsUnchanged /\ inv.res.peltier = <<>>)

\* a NaN read from the sensor after a valid invocation moved the integral
NaNSafetyWitness ==
    /\ calls = 2
    /\ inv.args.sensor = NaN
    /\ inv.args.peltier_ok
    /\ inv.before.integral # Zero
    /\ inv.before.last_error # Zero

\* C2 (duty bound): every duty passed to set_peltier_power lies in
\* [0, max_duty] of that invocation.
DutyBound ==
    \A i \in 1..Len(inv.res.peltier) :
        inv.res.peltier[i].op = "set_peltier_power" =>
            /\ RLe(Zero, inv.res.peltier[i].duty)
            /\ RLe(inv.res.peltier[i].duty, kwargs.max_duty)

\* a second invocation whose |output| exceeds the ceiling and whose issued
\* duty is the ceiling
DutyBoundWitness ==
    /\ calls = 2
    /\ Len(inv.res.peltier) = 1
    /\ inv.res.peltier[1].op = "set_peltier_power"
    /\ inv.res.peltier[1].duty = kwargs.max_duty
    /\ RGt(RAbs(inv.res.output), kwargs.max_duty)
    /\ RGt(RAbs(RMul(kwargs.ki, pid.integral)), Zero)

\* C3 as claimed (direction sign): whenever a command is issued, it has
\* direction heat iff output > 0 and cool iff output < 0, and output = 0
\* issues Stop.
DirectionSignClaimed ==
    (Called /\ Len(inv.res.peltier) > 0) =>
        /\ (inv.res.peltier[1].forward = "heat") <=> RGt(inv.res.output, Zero)
        /\ (inv.res.peltier[1].forward = "cool") <=> RLt(inv.res.output, Zero)
        /\ (inv.res.output = Zero) => (inv.res.peltier[1] = StopPeltier)

\* C3 as amended: with max_duty > 0 the claimed equivalences hold; with
\* max_duty <= 0 the command is Stop whatever the sign of output.
DirectionSign ==
    (Called /\ Len(inv.res.peltier) > 0) =>
        IF RGt(kwargs.max_duty, Zero)
        THEN /\ (inv.res.peltier[1].forward = "heat") <=> RGt(inv.res.output, Zero)
             /\ (inv.res.peltier[1].forward = "cool") <=> RLt(inv.res.output, Zero)
             /\ (inv.res.output = Zero) <=> (inv.res.peltier[1] = StopPeltier)
        ELSE inv.res.peltier[1] = StopPeltier

\* a cool command issued for a negative output that the integral alone
\* produces (the error is zero)
DirectionSignWitness ==
    /\ Called
    /\ Len(inv.res.peltier) = 1
    /\ inv.res.peltier[1].forward = "cool"
    /\ RLt(inv.res.output, Zero)
    /\ inv.res.error = Zero

\* the first invocation of a fresh controller with the scenario's arguments
\* and the given current_temp
Scenario(temp) ==
    /\ calls = 1
    /\ kwargs = ScriptKwargs
    /\ inv.args.dt = One
    /\ inv.args.current_temp = temp
    /\ inv.args.peltier_ok

\* C8 as claimed (reference scenario): at 20.0 the invocation yields error 5,
\* output 60, duty 60 heat; at 30.0 error -5, output -60, duty 60 cool.
ReferenceScenarioClaimed ==
    /\ Scenario(R(20)) =>
          /\ inv.res.error = R(5)
          /\ inv.res.output = R(60)
          /\ inv.res.peltier = <<SetPeltierPower(R(60), "heat")>>
    /\ Scenario(R(30)) =>
          /\ inv.res.error = R(-5)
          /\ inv.res.output = R(-60)
          /\ inv.res.peltier = <<SetPeltierPower(R(60), "cool")>>

\* C8 as amended: the integral is advanced to error*dt before the output is
\* formed, so output is +-(60 + 0.015*5) = +-60.075 and the duty 60.075.
ReferenceScenario ==
    /\ Scenario(R(20)) =>
          /\ inv.res.error = R(5)
          /\ inv.res.output = Rat(60075, 1000)
          /\ inv.res.peltier = <<SetPeltierPower(Rat(60075, 1000), "heat")>>
    /\ Scenario(R(30)) =>
          /\ inv.res.error = R(-5)
          /\ inv.res.output = Rat(-60075, 1000)
          /\ inv.res.peltier = <<SetPeltierPower(Rat(60075, 1000), "cool")>>

ReferenceScenarioWitness == Scenario(R(30)) /\ inv.res.direction = "cool"

\* the dt the claim prescribes for the latest invocation
ClaimedDt ==
    IF inv.args.dt # None THEN inv.args.dt
    ELSE IF inv.before.last_time # None
         THEN RSub(Timestamp, inv.before.last_time)
         ELSE One

\* C9 (dt resolution): the dt of the integral and derivative update is the
\* explicit dt when given; else this invocation's timestamp (elapsed if given,
\* else the wall clock) minus last_time when last_time is set; else 1.
DtResolution ==
    (Called /\ inv.res.valid) =>
        /\ pid.integral = RAdd(inv.before.integral, RMul(inv.res.error, ClaimedDt))
        /\ inv.res.raw_derivative =
              IF RGt(ClaimedDt, Zero)
              THEN RDiv(RSub(inv.res.error, inv.before.last_error), ClaimedDt)
              ELSE Zero

\* a second invocation without dt or elapsed, two seconds of wall clock after
\* the first, with a non-zero error
DtResolutionWitness ==
    /\ calls = 2
    /\ inv.res.valid
    /\ inv.args.dt = None
    /\ inv.args.elapsed = None
    /\ inv.before.last_time = R(0)
    /\ inv.args.now = R(2)
    /\ inv.res.dt = R(2)
    /\ inv.res.error # Zero

\* C10 as claimed: after every invocation last_time is the timestamp of that
\* invocation: elapsed if supplied, otherwise the wall clock at the call (when
\* the code does not read the clock, some reading not before the latest one).
LastTimeAlwaysClaimed ==
    Called =>
        IF Timestamp # None
        THEN pid.last_time = Timestamp
        ELSE \E t \in clock..MaxClock : pid.last_time = R(t)

\* C10 as amended: last_time becomes the timestamp of the invocation unless an
\* explicit dt is given without elapsed; then last_time is left as it was.
\* NaN makes no difference.
LastTimeUpdate ==
    Called =>
        IF inv.args.dt = None \/ inv.args.elapsed # None
        THEN pid.last_time = Timestamp
        ELSE pid.last_time = inv.before.last_time

\* an explicit dt together with elapsed, on a NaN reading: last_time moves
LastTimeUpdateWitness ==
    /\ calls = 2
    /\ inv.args.dt # None
    /\ inv.args.elapsed = R(3)
    /\ IsNaN(inv.res.current_temp)
    /\ inv.before.last_time = R(1)
    /\ pid.last_time = R(3)

\* C17 as stated (last_time invariant): last_time is unset until the first
\* invocation that computed a dt from timestamps and is from then on the
\* timestamp of the most recent such invocation; an invocation given an
\* explicit dt leaves it unchanged.
LastTimeInvariantClaimed ==
    /\ pid.last_time = hist.computed
    /\ (Called /\ inv.args.dt # None) => pid.last_time = inv.before.last_time

\* C17 (last_time invariant, amended): last_time is unset until the first
\* invocation that is given no explicit dt or is given elapsed, never returns
\* to unset, and is from then on the timestamp (elapsed if supplied, else the
\* wall clock) of the most recent such invocation; an invocation given an
\* explicit dt and no elapsed leaves it unchanged.
LastTimeInvariant ==
    /\ pid.last_time = hist.stamped
    /\ (Called /\ inv.before.last_time # None) => pid.last_time # None
    /\ (Called /\ inv.args.dt # None /\ inv.args.elapsed = None) =>
           pid.last_time = inv.before.last_time

\* last_time was set by a first call; a second call with an explicit dt and no
\* elapsed keeps it, although that call is the most recent one
LastTimeInvariantWitness ==
    /\ calls = 2
    /\ inv.args.dt # None
    /\ inv.args.elapsed = None
    /\ inv.before.last_time = R(3)
    /\ pid.last_time = R(3)
    /\ hist.stamped = R(3)

\* C18 (unbounded integral): integral is the sum of error * dt over exactly
\* the non-NaN invocations so far; it is not clamped, reset or frozen, also
\* when the duty is saturated at max_duty.
UnboundedIntegral ==
    /\ pid.integral = hist.sum
    /\ (Called /\ inv.res.valid) =>
           pid.integral = RAdd(inv.before.integral, RMul(inv.res.error, inv.res.dt))
    /\ (Called /\ ~inv.res.valid) => pid.integral = inv.before.integral

\* two non-NaN invocations with the duty saturated in the second: the integral
\* holds both terms and exceeds what one call contributes
UnboundedIntegralWitness ==
    /\ calls = 2
    /\ inv.res.valid
    /\ inv.before.integral = R(5)
    /\ pid.integral = R(20)
    /\ RGt(RAbs(inv.res.output), kwargs.max_duty)
    /\ inv.res.duty = kwargs.max_duty
    /\ RGt(kwargs.max_duty, Zero)

\* C19 (order of the PID computation): in a non-NaN invocation the integral
\* is advanced by error * dt first; the filtered derivative is computed from
\* the previous last_error and the previous last_derivative and stored as the
\* new last_derivative; output is kp * error + ki * (the advanced integral) +
\* kd * (the new filtered derivative); last_error becomes error afterwards.
OrderOfComputation ==
    (Called /\ inv.res.valid) =>
        /\ pid.integral =
               RAdd(inv.before.integral, RMul(inv.res.error, inv.res.dt))
        /\ inv.res.raw_derivative =
               IF RGt(inv.res.dt, Zero)
               THEN RDiv(RSub(inv.res.error, inv.before.last_error), inv.res.dt)
               ELSE Zero
        /\ pid.last_derivative =
               RAdd(RMul(kwargs.derivative_alpha, inv.before.last_derivative),
                    RMul(RSub(One, kwargs.derivative_alpha), inv.res.raw_derivative))
        /\ inv.res.output =
               RAdd(RAdd(RMul(kwargs.kp, inv.res.error),
                         RMul(kwargs.ki, pid.integral)),
                    RMul(kwargs.kd, pid.last_derivative))
        /\ pid.last_error = inv.res.error

\* a second non-NaN invocation with non-zero ki and kd whose output differs
\* from the one the terms of before the call would give
OrderOfComputationWitness ==
    /\ calls = 2
    /\ inv.res.valid
    /\ RGt(inv.res.dt, Zero)
    /\ kwargs.ki # Zero
    /\ kwargs.kd # Zero
    /\ inv.before.last_error # Zero
    /\ inv.before.last_error # inv.res.error
    /\ inv.before.last_derivative # Zero
    /\ pid.last_derivative # inv.before.last_derivative
    /\ inv.res.output #
           RAdd(RAdd(RMul(kwargs.kp, inv.res.error),
                     RMul(kwargs.ki, inv.before.integral)),
                RMul(kwargs.kd, inv.before.last_derivative))

\* C20 (non-positive dt): a non-NaN invocation whose resolved dt is <= 0 (an
\* explicit dt <= 0, or elapsed not later than last_time) performs no division
\* by dt: the raw derivative is 0, the new last_derivative is
\* derivative_alpha times the previous one, and the integral, the output and
\* last_error are computed with that dt as for any other.
NonPositiveDt ==
    (Called /\ inv.res.valid /\ RLe(inv.res.dt, Zero)) =>
        /\ inv.res.raw_derivative = Zero
        /\ pid.last_derivative =
               RMul(kwargs.derivative_alpha, inv.before.last_derivative)
        /\ pid.integral =
               RAdd(inv.before.integral, RMul(inv.res.error, inv.res.dt))
        /\ ~IsNaN(inv.res.output)
        /\ inv.res.duty = RMax(Zero, RMin(kwargs.max_duty, RAbs(inv.res.output)))
        /\ pid.last_error = inv.res.error

\* elapsed earlier than last_time: a negative dt computed from timestamps, on
\* a state with a non-zero derivative and a different last_error
NonPositiveDtWitness ==
    /\ calls = 2
    /\ inv.res.valid
    /\ inv.args.dt = None
    /\ RLt(inv.res.dt, Zero)
    /\ inv.before.last_derivative # Zero
    /\ inv.before.last_error # inv.res.error
    /\ RLt(pid.integral, inv.before.integral)
    /\ pid.last_derivative # Zero

\* C21 (one command per invocation): an invocation makes at most one call on
\* the peltier; with a non-NaN temperature and the peltier available it makes
\* exactly one, set_peltier_power(duty, direction) if and only if duty > 0 and
\* stop_peltier otherwise (always so with max_duty = 0); otherwise it makes
\* none, whatever an earlier invocation sent.
OneCommand ==
    Called =>
        /\ Len(inv.res.peltier) <= 1
        /\ (inv.res.valid /\ inv.args.peltier_ok) =>
              /\ Len(inv.res.peltier) = 1
              /\ (inv.res.peltier[1].op = "set_peltier_power") <=> RGt(inv.res.duty, Zero)
              /\ (inv.res.peltier[1].op = "stop_peltier") <=> ~RGt(inv.res.duty, Zero)
              /\ RGt(inv.res.duty, Zero) =>
                    /\ inv.res.peltier[1].duty = inv.res.duty
                    /\ inv.res.peltier[1].forward = inv.res.direction
              /\ kwargs.max_duty = Zero => inv.res.peltier[1] = StopPeltier
        /\ (~inv.res.valid \/ ~inv.args.peltier_ok) => inv.res.peltier = <<>>

\* a second invocation, after a valid one, that sees NaN with the peltier
\* available: nothing is sent, the earlier command is not repeated
OneCommandWitness ==
    /\ calls = 2
    /\ inv.before.last_error # Zero
    /\ ~inv.res.valid
    /\ inv.args.peltier_ok
    /\ inv.res.peltier = <<>>

\* C22 (logging): every invocation emits exactly one log record: info when
\* it made a call on the peltier (set_peltier_power or stop_peltier), warning
\* when the peltier was unavailable, warning when NaN made it skip the update.
Logging ==
    Called =>
        /\ Len(inv.res.logs) = 1
        /\ inv.res.logs[1] = IF inv.res.peltier # <<>> THEN "info" ELSE "warning"
        /\ (inv.res.valid /\ inv.args.peltier_ok) => inv.res.logs = <<"info">>
        /\ (inv.res.valid /\ ~inv.args.peltier_ok) => inv.res.logs = <<"warning">>
        /\ ~inv.res.valid => inv.res.logs = <<"warning">>

\* a valid invocation without the peltier: the state moves, one warning
LoggingWitness ==
    /\ calls = 2
    /\ inv.res.valid
    /\ ~inv.args.peltier_ok
    /\ inv.res.logs = <<"warning">>
    /\ pid.integral # inv.before.integral

\* C23 (NaN advances the clock): an invocation that sees NaN and is given no
\* explicit dt sets last_time to its own timestamp and leaves integral,
\* last_error and last_derivative; the dt of a valid invocation that follows
\* it, computed from timestamps, is the time since the NaN invocation, and
\* only that time enters the integral.
NanAdvancesClock ==
    /\ (Called /\ ~inv.res.valid /\ inv.args.dt = None) =>
          /\ pid.last_time = Timestamp
          /\ hist.skipped = Timestamp
          /\ PidTermsUnchanged
    /\ (Called /\ inv.res.valid /\ inv.args.dt = None
           /\ hist.skipped_before # None) =>
          /\ inv.res.dt = RSub(Timestamp, hist.skipped_before)
          /\ pid.integral =
                RAdd(inv.before.integral,
                     RMul(inv.res.error, RSub(Timestamp, hist.skipped_before)))

\* NaN at elapsed = 1, then a valid invocation at elapsed = 3: dt is 2 and
\* the integral is error * 2
NanAdvancesClockWitness ==
    /\ calls = 2
    /\ hist.skipped_before = R(1)
    /\ inv.res.valid
    /\ inv.args.dt = None
    /\ inv.args.elapsed = R(3)
    /\ inv.res.dt = R(2)
    /\ inv.res.error = R(5)
    /\ pid.integral = R(10)

\* C24 (first-invocation derivative): on a valid invocation of a controller
\* whose terms are still the initial ones (last_error = 0), with dt > 0, the
\* raw derivative is error / dt, the stored last_derivative is
\* (1 - alpha) * error / dt, and the output includes kd times that.
FirstDerivative ==
    (Called /\ inv.res.valid /\ RGt(inv.res.dt, Zero)
       /\ inv.before.integral = Zero /\ inv.before.last_error = Zero
       /\ inv.before.last_derivative = Zero) =>
        /\ inv.res.raw_derivative = RDiv(inv.res.error, inv.res.dt)
        /\ pid.last_derivative =
               RDiv(RMul(RSub(One, kwargs.derivative_alpha), inv.res.error),
                    inv.res.dt)
        /\ inv.res.output =
               RAdd(RAdd(RMul(kwargs.kp, inv.res.error),
                         RMul(kwargs.ki, RMul(inv.res.error, inv.res.dt))),
                    RMul(kwargs.kd, pid.last_derivative))

\* the very first invocation, valid, with kd # 0: the derivative term is
\* part of the output
FirstDerivativeWitness ==
    /\ calls = 1
    /\ inv.res.valid
    /\ RGt(inv.res.dt, Zero)
    /\ inv.res.error # Zero
    /\ kwargs.kd # Zero
    /\ inv.res.raw_derivative # Zero
    /\ inv.res.output #
           RAdd(RMul(kwargs.kp, inv.res.error), RMul(kwargs.ki, pid.integral))

\* the PID terms the update of the latest invocation must produce, whatever
\* the availability of the peltier
ExpectedTerms ==
    LET raw == IF RGt(inv.res.dt, Zero)
               THEN RDiv(RSub(inv.res.error, inv.before.last_error), inv.res.dt)
               ELSE Zero
    IN  [integral |-> RAdd(inv.before.integral, RMul(inv.res.error, inv.res.dt)),
         last_error |-> inv.res.error,
         last_derivative |->
             RAdd(RMul(kwargs.derivative_alpha, inv.before.last_derivative),
                  RMul(RSub(One, kwargs.derivative_alpha), raw))]

\* C11 (actuator unavailable): with the peltier not initialized and a non-NaN
\* temperature no actuator call is made, and integral, last_error and
\* last_derivative are updated as with the peltier available: the state after
\* the call is the one the same call with the peltier available produces.
ActuatorUnavailable ==
    (Called /\ inv.res.valid /\ ~inv.args.peltier_ok) =>
        /\ inv.res.peltier = <<>>
        /\ pid.integral = ExpectedTerms.integral
        /\ pid.last_error = ExpectedTerms.last_error
        /\ pid.last_derivative = ExpectedTerms.last_derivative
        /\ pid = PidController(inv.before, kwargs,
                               [inv.args EXCEPT !.peltier_ok = TRUE]).st

\* a second valid invocation without the peltier that moves all three terms
ActuatorUnavailableWitness ==
    /\ calls = 2
    /\ inv.res.valid
    /\ ~inv.args.peltier_ok
    /\ inv.res.peltier = <<>>
    /\ pid.integral # inv.before.integral
    /\ pid.last_error # inv.before.last_error
    /\ pid.last_derivative # inv.before.last_derivative
    /\ inv.before.last_derivative # Zero

\* the bound gains are all zero
ZeroGains == kwargs.kp = Zero /\ kwargs.ki = Zero /\ kwargs.kd = Zero

\* C15 as stated (zero gains): with kp = ki = kd = 0 every invocation, for
\* any temperature, setpoint and prior state, computes output = 0 and issues
\* Stop.
ZeroGainsClaimed ==
    (Called /\ ZeroGains) =>
        inv.res.output = Zero /\ inv.res.peltier = <<StopPeltier>>

\* C15 (zero gains, amended): with kp = ki = kd = 0 every invocation with a
\* non-NaN temperature computes output = 0 and duty = 0 whatever the error and
\* the prior state, and issues exactly Stop when the peltier is available and
\* no call when it is not; with a NaN temperature no output is computed and
\* no call is made.
ZeroGainsStop ==
    (Called /\ ZeroGains) =>
        IF inv.res.valid
        THEN /\ inv.res.output = Zero
             /\ inv.res.duty = Zero
             /\ inv.res.peltier =
                    IF inv.args.peltier_ok THEN <<StopPeltier>> ELSE <<>>
        ELSE inv.res.output = None /\ inv.res.peltier = <<>>

\* zero gains, a non-zero error on a state with a non-zero integral, Stop
ZeroGainsStopWitness ==
    /\ calls = 2
    /\ ZeroGains
    /\ inv.res.valid
    /\ inv.args.peltier_ok
    /\ inv.res.error # Zero
    /\ inv.before.integral # Zero
    /\ inv.before.last_error # inv.res.error
    /\ inv.res.peltier = <<StopPeltier>>

----------------------------------------------------------------------------
(* Properties of the scheduler, checked under SchedSpec and SchedFairSpec. *)

\* C4: an exception of a job's action is caught at the scheduler boundary: it
\* never reaches the top level, the unit is not ended by it (a unit exits only
\* on stop or elapsed run_for), and the action is invoked again unless stop is
\* raised or run_for elapses.
ExceptionCaught ==
    /\ [](~failed)
    /\ [](\A j \in Jobs : jpc[j] = "exited" => (stop \/ expired[j]))
    /\ \A j \in Jobs :
         (outcome[j] = "raised" /\ jpc[j] # "invoking")
            ~> (jpc[j] = "invoking" \/ stop \/ expired[j])

\* a job invoked again after its action raised
ExceptionCaughtWitness ==
    \E j \in Jobs :
        /\ outcome[j] = "raised"
        /\ jpc[j] = "invoking"
        /\ invoked[j] = 2
        /\ ~stop
        /\ ~expired[j]

\* C5 (job isolation): a job whose action does not hang is invoked again and
\* again until stop is raised or its run_for elapses, whatever its siblings'
\* actions do (raise every time, hang forever).
JobIsolation ==
    \A j \in Jobs :
        (job[j].action # "hangs") =>
            ([]<>(jpc[j] = "invoking") \/ <>(stop \/ expired[j]))

\* a job in its second invocation while its sibling hangs in its first
JobIsolationWitness ==
    \E i, j \in Jobs :
        /\ job[i].action = "hangs"
        /\ jpc[i] = "invoking"
        /\ job[j].action = "returns"
        /\ jpc[j] = "invoking"
        /\ invoked[j] = 2
        /\ ~stop

JobTermination ==
    [][\A j \in Jobs :
         /\ (jpc[j] # "exited" /\ jpc'[j] = "exited") =>
               ((stop \/ expired[j]) /\ ~inflight[j])
         /\ (jpc[j] = "exited") =>
               (jpc'[j] = "exited" /\ ~inflight'[j] /\ invoked'[j] = invoked[j])]_vars

\* a unit that exited on elapsed run_for, stop not raised, after the
\* invocation that was in flight when run_for elapsed had returned
JobTerminationWitness ==
    \E j \in Jobs :
        /\ jpc[j] = "exited"
        /\ expired[j]
        /\ ~stop
        /\ overrun[j]
        /\ outcome[j] = "returned"

\* C25 (sequential invocations): a job's invocation starts only at the top of
\* its unit's loop with no invocation of that job in flight; when an
\* invocation ends the unit goes to its period sleep if the period is finite and
\* straight back to the top of the loop if it is continuous; a sleeping unit
\* starts nothing before the sleep has ended.
SequentialInvocations ==
    [][\A j \in Jobs :
         /\ (invoked'[j] # invoked[j] \/ (~inflight[j] /\ inflight'[j])) =>
               (~inflight[j] /\ jpc[j] = "loop" /\ jpc'[j] = "invoking")
         /\ (inflight[j] /\ ~inflight'[j]) =>
               jpc'[j] = IF job[j].period = "continuous" THEN "loop" ELSE "sleeping"
         /\ (jpc[j] = "sleeping") => (~inflight'[j] /\ invoked'[j] = invoked[j])
         /\ (jpc[j] = "invoking") => inflight[j]]_vars

\* the second invocation of a job with a finite period is in flight, the first
\* having returned
SequentialInvocationsWitness ==
    \E j \in Jobs :
        /\ invoked[j] = 2
        /\ inflight[j]
        /\ jpc[j] = "invoking"
        /\ job[j].period = "finite"
        /\ outcome[j] = "returned"

\* C16 (shutdown liveness): once the stop signal is raised, the unit of every
\* job whose invocations terminate eventually exits, also from a period sleep
\* whose end is never reached; when that holds of all jobs, every stop
\* operation that was begun returns.
ShutdownLiveness ==
    /\ \A j \in Jobs :
          (stop /\ job[j].action # "hangs") ~> (jpc[j] = "exited")
    /\ ((\A j \in Jobs : job[j].action # "hangs") /\ mpc = "finish_join")
          ~> (mpc = "exit" /\ returned = 1)
    /\ ((\A j \in Jobs : job[j].action # "hangs") /\ mpc = "exit_join")
          ~> (mpc = "done")

\* the stop operation waits for a unit that is in its period sleep with an
\* indefinite run_for, the other unit having exited
ShutdownLivenessWitness ==
    \E j \in Jobs :
        /\ stop
        /\ mpc = "finish_join"
        /\ jpc[j] = "sleeping"
        /\ job[j].period = "finite"
        /\ job[j].run_for = "indefinite"
        /\ \A k \in Jobs \ {j} : jpc[k] = "exited"

----------------------------------------------------------------------------
(* Properties of the init functions, checked under CompSpec.  They read    *)
(* init, the record of the latest init call.                               *)

\* the config lacks a pin that component c requires
MissingRequiredPin(c) ==
    \/ c = "peltier_driver" /\ None \in {config.PELTIER_PWM_PIN, config.PELTIER_DIR_PIN}
    \/ c = "stirrer" /\ config.STIRRER_PWM_PIN = None
    \/ c = "led" /\ config.LED_PWM_PIN = None

\* C14 (configuration error): when a pin it requires is missing from the
\* config (PELTIER_PWM_PIN or PELTIER_DIR_PIN; STIRRER_PWM_PIN; LED_PWM_PIN),
\* the init function returns initialized = False with an error message, does
\* not raise, opens no GPIO chip, claims no pin and starts no PWM, and the
\* bioreactor has no driver attribute for that component.
ConfigurationError ==
    /\ \A c \in Components : MissingRequiredPin(c) => reactor.drivers[c] = None
    /\ (inits > 0 /\ MissingRequiredPin(init.component)) =>
           /\ ~init.result.initialized
           /\ init.result.error
           /\ ~init.result.raised
           /\ gpio.opens = init.gpio.opens
           /\ gpio.claimed = init.gpio.claimed
           /\ gpio.pwm = init.gpio.pwm
           /\ reactor = init.reactor

\* init_peltier_driver with only PELTIER_DIR_PIN missing and every hardware
\* call working, on a bioreactor whose chip another component opened
ConfigurationErrorWitness ==
    /\ inits = 2
    /\ init.component = "peltier_driver"
    /\ init.fault = "none"
    /\ config.PELTIER_PWM_PIN # None
    /\ config.PELTIER_DIR_PIN = None
    /\ init.result = Failed
    /\ gpio.opens = 1
    /\ gpio.claimed = {25}
    /\ reactor.drivers["led"] # None
    /\ reactor.drivers["peltier_driver"] = None

----------------------------------------------------------------------------
(* Properties of the shared hardware, checked under HwSpec.                *)

\* the pins hold exactly what command c asks for
ActuatorHolds(c) ==
    CASE c.op = "set_peltier_power" ->
            peltier.duty = c.duty /\ peltier.dir = c.forward
      [] c.op = "stop_peltier" -> peltier.duty = Zero
      [] OTHER -> peltier.duty = Zero /\ peltier.dir = "none"

\* the jobs that are in the middle of a peltier command
Writers == {j \in Jobs : ipc[j] = "writing"}

\* C12 (serialized access): at most one job at a time is in the middle of a
\* peltier command, and whenever none is, the pins hold the duty and the
\* direction of one command, the one completed last; never the duty of one
\* command with the direction of another.  At most one job at a time is in the
\* middle of a temperature read, and no reader gets another's conversion.
SerializedAccess ==
    /\ Cardinality(Writers) <= 1
    /\ \A j \in Writers : peltier.lock = j
    /\ Writers = {} => ActuatorHolds(peltier.done)
    /\ Cardinality({j \in Jobs : ipc[j] = "reading"}) <= 1
    /\ ~sensor.torn

\* job 1 is in the middle of a heat command (duty written, the direction
\* still the one of the cool command before) while job 2 has read the
\* temperature and waits to command the peltier
SerializedAccessWitness ==
    /\ ipc[1] = "writing"
    /\ pending[1] = SetPeltierPower(R(60), "heat")
    /\ peltier.done = SetPeltierPower(R(40), "cool")
    /\ peltier.duty = R(60)
    /\ peltier.dir = "cool"
    /\ ipc[2] = "read"
    /\ job[2].action = "controls"

SharedGpioChip ==
    /\ gpio.opens <= 1
    /\ gpio.opens = 1 <=> reactor.gpio_chip # None
    /\ \A c \in Components :
          reactor.drivers[c] # None => reactor.drivers[c] = reactor.gpio_chip
    /\ (inits > 0 /\ init.reactor.gpio_chip # None) =>
          /\ gpio.opens = init.gpio.opens
          /\ reactor.gpio_chip = init.reactor.gpio_chip

\* the chip was opened by calls that failed at pin setup; the third call
\* finds the handle and attaches a second driver holding it
SharedGpioChipWitness ==
    /\ inits = 3
    /\ init.gpio.opens = 1
    /\ init.result = Initialized
    /\ gpio.opens = 1
    /\ \E c \in Components \ {init.component} :
          /\ init.reactor.drivers[c] # None
          /\ reactor.drivers[c] = reactor.drivers[init.component]
    /\ \E c \in Components :
          /\ reactor.drivers[c] = None
          /\ ~MissingRequiredPin(c)
          /\ Cardinality(gpio.claimed) = 4

\* C27 as stated (initialization never raises): whatever hardware call fails,
\* an init function returns; the result has initialized = False and an error
\* unless the driver was attached, and initialized = True only with the
\* driver attached.
NeverRaises ==
    inits > 0 =>
        /\ ~init.result.raised
        /\ init.result.initialized => reactor.drivers[init.component] # None
        /\ ~init.result.initialized => init.result.error

----------------------------------------------------------------------------
(* Properties of the CO2 read functions, checked under Co2Spec.            *)

FailedWithOSError(o) ==
    o.kind \in {"oserror_open", "oserror_write", "oserror_read"}

FullReply(o) == o.kind = "reply" /\ Len(o.data) >= REPLY_LEN

ShortReply(o) == o.kind = "reply" /\ Len(o.data) < REPLY_LEN

\* C28: read_co2_ppm and read_co2_ppm_with_bus make at most `retries`
\* attempts; every attempt before the last one made failed with OSError (only
\* an OSError triggers another attempt); the call returns the value of the
\* first attempt that succeeds, high byte data[2] and low byte data[3] of its
\* reply; it raises RuntimeError exactly when `retries` attempts all failed
\* with OSError (none at all when retries = 0) or when a reply is short, in
\* which case at once; and once it has returned or raised it makes no
\* further attempt.
Co2Retry ==
    /\ [](co2.pc # "idle" =>
          LET n == Len(co2.tries)
              last == co2.tries[n]
          IN  /\ n <= co2.retries
              /\ \A i \in 1..(n - 1) : FailedWithOSError(co2.tries[i])
              /\ co2.pc = "loop" => \A i \in 1..n : FailedWithOSError(co2.tries[i])
              /\ co2.pc = "returned" =>
                    /\ n >= 1
                    /\ FullReply(last)
                    /\ co2.value = last.data[3] * 256 + last.data[4]
              /\ co2.pc = "raised" =>
                    /\ co2.exc = "RuntimeError" <=>
                          \/ /\ n = co2.retries
                             /\ \A i \in 1..n : FailedWithOSError(co2.tries[i])
                          \/ n >= 1 /\ ShortReply(last)
                    /\ co2.exc # "RuntimeError" => n >= 1 /\ last.kind = "other"
                    /\ co2.message = "I2C read failed" <=>
                          \A i \in 1..n : FailedWithOSError(co2.tries[i]))
    /\ [][co2.pc \in {"returned", "raised"} => co2' = co2]_vars

\* two attempts fail with OSError, the third one returns 500 ppm
Co2RetryWitness ==
    /\ co2.retries = 3
    /\ co2.pc = "returned"
    /\ Len(co2.tries) = 3
    /\ FailedWithOSError(co2.tries[1])
    /\ FailedWithOSError(co2.tries[2])
    /\ co2.value = 500

----------------------------------------------------------------------------
(* Properties of the plot series, checked under PlotSpec.                  *)

Series == {"time", "temperature", "od_trx", "od_sct"}

\* C29 as stated: after every call that returns normally, each of the four
\* series has grown by exactly one sample, the four have equal length and
\* none exceeds 1000 samples.
PlotAlignedClaimed ==
    meas.outcome = "returned" =>
        /\ \A s \in Series : plot[s] = meas.before[s] + 1
        /\ \A s \in Series : plot[s] = plot.time
        /\ \A s \in Series : plot[s] <= 1000

\* C29, amended: after every call that returns normally, in every
\* combination of LED and optical-density availability and of missing
\* readings, each of the four series has received exactly one sample: a
\* series of fewer than 1000 samples is one longer, a series of 1000 drops
\* its oldest sample and stays at 1000.  No series ever exceeds 1000 samples;
\* od_trx, od_sct and time always have equal length; temperature is never
\* shorter than time and has the same length unless an earlier call raised
\* in an optical-density read, after its temperature sample was stored; and
\* after a call that returns normally with more than one time sample, all
\* four have equal length.
PlotAligned ==
    /\ meas.outcome = "returned" =>
          \A s \in Series :
              plot[s] = IF meas.before[s] < 1000 THEN meas.before[s] + 1 ELSE 1000
    /\ \A s \in Series : plot[s] <= 1000
    /\ plot.od_trx = plot.time /\ plot.od_sct = plot.time
    /\ plot.time <= plot.temperature
    /\ raises = 0 => plot.temperature = plot.time
    /\ meas.outcome = "returned" /\ plot.time > 1 =>
          \A s \in Series : plot[s] = plot.time

\* a call with the LED and the sensor available and the Sct reading missing
\* returns normally on full series
PlotAlignedWitness ==
    /\ meas.outcome = "returned"
    /\ meas.led /\ meas.od /\ meas.readings = "Trx"
    /\ meas.before.time = 1000
    /\ plot.time = 1000 /\ plot.od_sct = 1000

====
